---- MODULE Spec2Model ----
(***************************************************************************)
(* FlashRead: the vocabulary filter, the word selection and the event loop *)
(* of FlashCardApp (src/src/flashcard_app.py).                             *)
(*                                                                         *)
(* A word is a sequence of characters; a character is a one-element        *)
(* string for an ASCII letter and a name for the few other characters the  *)
(* model needs ("NL" is a line feed, "LONG_S" is U+017F, "-" the hyphen    *)
(* the display inserts).  None stands for Python's None.                   *)
(***************************************************************************)
EXTENDS Integers, Sequences, FiniteSets, TLC

VARIABLES
    vocabulary_df,      \* the store: a sequence of rows [Word, length]
    toggle_states,      \* letter -> BOOLEAN
    slider_min_value,
    slider_max_value,
    selected_case,      \* "lower" | "UPPER" | "Title"
    hyphenate_enabled,
    settings_visible,
    window_size,        \* <<WINDOW_WIDTH, WINDOW_HEIGHT>>
    font_size,
    dragging_min,       \* locals of run()
    dragging_max,
    current_word,
    displayed,          \* what the last display_word call rendered
    pc,                 \* position in run() / get_display_word()
    candidate_word,     \* locals of get_display_word()
    draws,              \* get_random_word calls made by the running get_display_word
    filter_calls,       \* get_filtered_df calls made by the running get_display_word
    drawn_from,         \* the filtered words the last get_random_word drew from
    checked,            \* the filter state the last validation read
    result,             \* the value get_display_word returned last
    interference,       \* filter changes made by another actor during the call
    argv,               \* the command line of the process (None: no CLI process)
    vocabulary_file,    \* data_dir/vocabulary.csv: "absent" | "unreadable" |
                        \* "readable" | "written"
    processor_vocabulary_df, \* TextProcessor.vocabulary_df, the frame handed to
                        \* FlashCardApp
    raised,             \* the exception in flight ("none" when there is none)
    success,            \* what FlashReadCLI.run returned
    exit_code,          \* the status the process ended with
    word_frequencies,   \* TextProcessor.word_frequencies: the items of the dict,
                        \* a sequence of [Word, Count]
    word_frequencies_file,  \* data_dir/word_frequencies.csv, as vocabulary_file
    word_frequencies_csv,   \* what word_frequencies.csv holds when it can be read
    vocabulary_csv,     \* what vocabulary.csv holds when it can be read
    corpus_processed,   \* process_all_corpus_files was called
    returned            \* the last TextProcessor method called and its value

vars == <<vocabulary_df, toggle_states, slider_min_value, slider_max_value,
          selected_case, hyphenate_enabled, settings_visible, window_size,
          font_size, dragging_min, dragging_max, current_word, displayed, pc,
          candidate_word, draws, filter_calls, drawn_from, checked, result,
          interference, argv, vocabulary_file, processor_vocabulary_df, raised,
          success, exit_code, word_frequencies, word_frequencies_file,
          word_frequencies_csv, vocabulary_csv, corpus_processed, returned>>

processorVars == <<word_frequencies, word_frequencies_file, word_frequencies_csv,
                   vocabulary_csv, corpus_processed, returned>>

cliVars == <<argv, vocabulary_file, processor_vocabulary_df, raised, success,
             exit_code, processorVars>>

\* Python's None, as a value no word equals ("None" is no character)
None == <<"None">>

----------------------------------------------------------------------------
(* Characters and str methods *)

alphabet == <<"a","b","c","d","e","f","g","h","i","j","k","l","m",
              "n","o","p","q","r","s","t","u","v","w","x","y","z">>

Letters == {alphabet[i] : i \in 1..Len(alphabet)}

upper_alphabet == <<"A","B","C","D","E","F","G","H","I","J","K","L","M",
                    "N","O","P","Q","R","S","T","U","V","W","X","Y","Z">>

UpperLetters == {upper_alphabet[i] : i \in 1..Len(upper_alphabet)}

UpperOf == [l \in Letters |->
               upper_alphabet[CHOOSE i \in 1..Len(alphabet) : alphabet[i] = l]]

LowerOf == [u \in UpperLetters |->
               alphabet[CHOOSE i \in 1..Len(alphabet) : upper_alphabet[i] = u]]

\* str.lower() on one character (U+017F is lower case already)
LowerChar(ch) == IF ch \in UpperLetters THEN LowerOf[ch] ELSE ch

\* str.upper() on one character (the upper case of U+017F is "S")
UpperChar(ch) ==
    IF ch \in Letters THEN UpperOf[ch]
    ELSE IF ch = "LONG_S" THEN "S"
    ELSE ch

LowerStr(w) == [i \in 1..Len(w) |-> LowerChar(w[i])]
UpperStr(w) == [i \in 1..Len(w) |-> UpperChar(w[i])]

IsCased(ch) == ch \in Letters \/ ch \in UpperLetters \/ ch = "LONG_S"

\* str.title(): upper-case a cased character that follows an uncased one
\* (or starts the string), lower-case the others
TitleStr(w) ==
    [i \in 1..Len(w) |->
        IF i = 1 \/ ~IsCased(w[i-1]) THEN UpperChar(w[i]) ELSE LowerChar(w[i])]

CharSet(w) == {w[i] : i \in 1..Len(w)}

----------------------------------------------------------------------------
(* The filter: get_filtered_df and validate_word_matches_filters *)

ActiveLetters(ts) == {l \in Letters : ts[l]}

\* One character against the class [active_letters] compiled with
\* re.IGNORECASE (Series.str.contains(..., case=False)): the character, its
\* lower case, or a letter the re module treats as the same under case
\* folding (U+017F and "s").
ClassMatches(ch, active) ==
    \/ ch \in active
    \/ LowerChar(ch) \in active
    \/ ch = "LONG_S" /\ "s" \in active

\* re.search("^[active]+$", word): one or more class characters from the
\* start, then the end of the string; "$" also matches just before a line
\* feed that ends the string.
PatternMatches(word, active) ==
    \E n \in 1..Len(word) :
        /\ \A i \in 1..n : ClassMatches(word[i], active)
        /\ \/ n = Len(word)
           \/ n = Len(word) - 1 /\ word[Len(word)] = "NL"

RowMatches(row, ts, lo, hi) ==
    /\ PatternMatches(row.Word, ActiveLetters(ts))
    /\ row.length >= lo
    /\ row.length <= hi

\* get_filtered_df without its early return, the empty letter set read as
\* "any letter"
get_filtered_df_NoEmptyGuard(df, ts, lo, hi) ==
    SelectSeq(df, LAMBDA row :
        /\ ActiveLetters(ts) = {} \/ PatternMatches(row.Word, ActiveLetters(ts))
        /\ row.length >= lo
        /\ row.length <= hi)

\* get_filtered_df: the rows of the store that pass, in store order; the
\* empty frame when no letter is selected
get_filtered_df(df, ts, lo, hi) ==
    IF ActiveLetters(ts) = {}
    THEN << >>
    ELSE SelectSeq(df, LAMBDA row : RowMatches(row, ts, lo, hi))

\* filtered_df["Word"].tolist()
WordList(df) == [i \in 1..Len(df) |-> df[i].Word]

\* validate_word_matches_filters with "and" for the "or" of its length test
validate_word_matches_filters_LengthAnd(word, ts, lo, hi) ==
    IF word = None THEN FALSE
    ELSE IF ActiveLetters(ts) = {} THEN FALSE
    ELSE IF ~(CharSet(LowerStr(word)) \subseteq ActiveLetters(ts)) THEN FALSE
    ELSE IF Len(word) < lo /\ Len(word) > hi THEN FALSE
    ELSE TRUE

\* validate_word_matches_filters
validate_word_matches_filters(word, ts, lo, hi) ==
    IF word = None THEN FALSE
    ELSE IF ActiveLetters(ts) = {} THEN FALSE
    ELSE IF ~(CharSet(LowerStr(word)) \subseteq ActiveLetters(ts)) THEN FALSE
    ELSE IF Len(word) < lo \/ Len(word) > hi THEN FALSE
    ELSE TRUE

----------------------------------------------------------------------------
(* Layout: setup_pygame, setup_settings_panel, setup_ui_elements *)

COGWHEEL_SIZE == 32
COGWHEEL_MARGIN == 20
PANEL_WIDTH == 480
PANEL_HEIGHT == 480
PANEL_MARGIN == 40
SECTION_SPACING == 25
SLIDER_WIDTH == 120
box_size == 24
min_font_size == 50
max_font_size == 300
case_options == <<"lower", "UPPER", "Title">>

Rect(x, y, w, h) == [x |-> x, y |-> y, w |-> w, h |-> h]

\* pygame.Rect.collidepoint: the right and bottom edges are outside
collidepoint(r, pos) ==
    /\ r.x <= pos[1] /\ pos[1] < r.x + r.w
    /\ r.y <= pos[2] /\ pos[2] < r.y + r.h

\* Python's // (floor division; the divisors here are positive)
FloorDiv(a, b) == a \div b

Max(a, b) == IF a >= b THEN a ELSE b
Min(a, b) == IF a <= b THEN a ELSE b

cogwheel_rect(ws) ==
    Rect(ws[1] - COGWHEEL_SIZE - COGWHEEL_MARGIN, COGWHEEL_MARGIN,
         COGWHEEL_SIZE, COGWHEEL_SIZE)

settings_panel_rect(ws) ==
    Rect(FloorDiv(ws[1] - PANEL_WIDTH, 2), 80, PANEL_WIDTH, PANEL_HEIGHT)

\* the toggle box of the letter at 0-based place i, in panel coordinates
toggle_rect(i) ==
    Rect(PANEL_MARGIN + (i % 13) * (box_size + 6),
         (50 + SECTION_SPACING + 75 + SECTION_SPACING) + (i \div 13) * (box_size + 6),
         box_size, box_size)

\* draw_settings_content: where the box of the letter at 0-based place i is
\* drawn on the panel surface
drawn_toggle_rect(i) ==
    Rect(PANEL_MARGIN + (i % 13) * (box_size + 6),
         ((50 + SECTION_SPACING + 75) + SECTION_SPACING) + (i \div 13) * (box_size + 6),
         box_size, box_size)

\* the radio area of case option i (0-based), in panel coordinates
radio_area(i) ==
    Rect(PANEL_MARGIN + i * 120,
         (50 + SECTION_SPACING + 75 + SECTION_SPACING + 85) + SECTION_SPACING,
         100, 20)

checkbox_rect ==
    Rect(PANEL_MARGIN,
         50 + SECTION_SPACING + 75 + SECTION_SPACING + 85 + SECTION_SPACING + 40,
         18, 18)

font_size_y ==
    (50 + SECTION_SPACING + 75 + SECTION_SPACING + 85 + SECTION_SPACING + 40
        + SECTION_SPACING + 35) + SECTION_SPACING

decrease_rect == Rect(PANEL_MARGIN, font_size_y, 30, 30)
increase_rect == Rect(PANEL_MARGIN + 35, font_size_y, 30, 30)
close_rect == Rect(PANEL_WIDTH - 25, 15, 15, 15)

\* update_font_size
update_font_size(new_size) == Max(min_font_size, Min(max_font_size, new_size))

\* The rectangle run() hit-tests a word click against: the rendered text,
\* centred on (WINDOW_WIDTH // 2, WINDOW_HEIGHT // 4).  The size of the
\* rendered text is the font's business; half the font size per character
\* wide and the font size high stands for it.
word_rect(text, ws, fs) ==
    Rect(FloorDiv(ws[1], 2) - FloorDiv(Len(text) * FloorDiv(fs, 2), 2),
         FloorDiv(ws[2], 4) - FloorDiv(fs, 2),
         Len(text) * FloorDiv(fs, 2), fs)

NoWords == <<"n","o"," ","w","o","r","d","s">>

----------------------------------------------------------------------------
(* display_word *)

\* "-".join(syllables)
JoinHyphen(syl) ==
    IF Len(syl) = 1 THEN syl[1] ELSE syl[1] \o <<"-">> \o syl[2]

\* What silabeador.syllabify may do with a word: raise, or return its
\* syllables; the model lets it cut the word after the second character.
SyllabifyOutcomes(word) ==
    {[raised |-> TRUE, syllables |-> << >>],
     [raised |-> FALSE,
      syllables |-> IF Len(word) > 2
                    THEN <<SubSeq(word, 1, 2), SubSeq(word, 3, Len(word))>>
                    ELSE <<word>>]}

ApplyCase(text, case) ==
    IF case = "lower" THEN LowerStr(text)
    ELSE IF case = "UPPER" THEN UpperStr(text)
    ELSE IF case = "Title" THEN TitleStr(text)
    ELSE text

\* display_word formatting the placeholder like a word
display_word_PlaceholderCased(word, hyph, case) ==
    IF hyph /\ word # None
    THEN {[word |-> word,
           text |-> ApplyCase(IF o.raised THEN word ELSE JoinHyphen(o.syllables), case),
           hyphenation |-> IF o.raised THEN "failed" ELSE "done"]
             : o \in SyllabifyOutcomes(word)}
    ELSE {[word |-> word,
           text |-> ApplyCase(IF word = None THEN NoWords ELSE word, case),
           hyphenation |-> "none"]}

\* display_word leaving its except clause without the case formatting
display_word_FailureUncased(word, hyph, case) ==
    IF word = None
    THEN {[word |-> None, text |-> NoWords, hyphenation |-> "none"]}
    ELSE IF hyph
    THEN {[word |-> word,
           text |-> IF o.raised THEN word ELSE ApplyCase(JoinHyphen(o.syllables), case),
           hyphenation |-> IF o.raised THEN "failed" ELSE "done"]
             : o \in SyllabifyOutcomes(word)}
    ELSE {[word |-> word, text |-> ApplyCase(word, case), hyphenation |-> "none"]}

\* display_word(word): every value `displayed` may take
display_word(word, hyph, case) ==
    IF word = None
    THEN {[word |-> None, text |-> NoWords, hyphenation |-> "none"]}
    ELSE IF hyph
    THEN {[word |-> word,
           text |-> ApplyCase(IF o.raised THEN word ELSE JoinHyphen(o.syllables), case),
           hyphenation |-> IF o.raised THEN "failed" ELSE "done"]
             : o \in SyllabifyOutcomes(word)}
    ELSE {[word |-> word, text |-> ApplyCase(word, case), hyphenation |-> "none"]}

----------------------------------------------------------------------------
(* Settings interactions *)

\* 0-based places of the letters whose toggle box holds panel_pos
ToggleHits(panel_pos) ==
    {i \in 0..(Len(alphabet) - 1) : collidepoint(toggle_rect(i), panel_pos)}

CaseHits(panel_pos) ==
    {i \in 0..(Len(case_options) - 1) : collidepoint(radio_area(i), panel_pos)}

Lowest(S) == CHOOSE i \in S : \A j \in S : i <= j

\* switching the letter on instead of flipping it
FlipLetter_SwitchOn(ts, letter) == [ts EXCEPT ![letter] = TRUE]

\* the assignment of line 574
FlipLetter(ts, letter) == [ts EXCEPT ![letter] = ~ts[letter]]

\* handle_settings_interactions(panel_pos) on the settings st =
\* [toggle_states, selected_case, hyphenate_enabled, font_size]: the settings
\* afterwards and the value returned
handle_settings_interactions(st, panel_pos) ==
    IF ToggleHits(panel_pos) # {}
    THEN [st EXCEPT !.toggle_states =
                FlipLetter(@, alphabet[Lowest(ToggleHits(panel_pos)) + 1]),
             !.handled = TRUE]
    ELSE IF CaseHits(panel_pos) # {}
    THEN [st EXCEPT !.selected_case = case_options[Lowest(CaseHits(panel_pos)) + 1],
                    !.handled = TRUE]
    ELSE IF collidepoint(checkbox_rect, panel_pos)
    THEN [st EXCEPT !.hyphenate_enabled = ~@, !.handled = TRUE]
    ELSE IF collidepoint(decrease_rect, panel_pos)
    THEN [st EXCEPT !.font_size = update_font_size(@ - 10), !.handled = TRUE]
    ELSE IF collidepoint(increase_rect, panel_pos)
    THEN [st EXCEPT !.font_size = update_font_size(@ + 10), !.handled = TRUE]
    ELSE [st EXCEPT !.handled = FALSE]

\* handle_settings_panel_click without its test of settings_visible
handle_settings_panel_click_AlwaysActive(st, pos, ws) ==
    IF ~collidepoint(settings_panel_rect(ws), pos)
    THEN [st EXCEPT !.settings_visible = FALSE, !.handled = TRUE]
    ELSE IF collidepoint(close_rect,
                <<pos[1] - settings_panel_rect(ws).x, pos[2] - settings_panel_rect(ws).y>>)
    THEN [st EXCEPT !.settings_visible = FALSE, !.handled = TRUE]
    ELSE handle_settings_interactions(st,
                <<pos[1] - settings_panel_rect(ws).x, pos[2] - settings_panel_rect(ws).y>>)

\* handle_settings_panel_click(pos): st also carries settings_visible
handle_settings_panel_click(st, pos, ws) ==
    IF ~st.settings_visible
    THEN [st EXCEPT !.handled = FALSE]
    ELSE IF ~collidepoint(settings_panel_rect(ws), pos)
    THEN [st EXCEPT !.settings_visible = FALSE, !.handled = TRUE]
    ELSE IF collidepoint(close_rect,
                <<pos[1] - settings_panel_rect(ws).x, pos[2] - settings_panel_rect(ws).y>>)
    THEN [st EXCEPT !.settings_visible = FALSE, !.handled = TRUE]
    ELSE handle_settings_interactions(st,
                <<pos[1] - settings_panel_rect(ws).x, pos[2] - settings_panel_rect(ws).y>>)

\* handle_cogwheel_click(pos)
handle_cogwheel_click(st, pos, ws) ==
    IF collidepoint(cogwheel_rect(ws), pos)
    THEN [st EXCEPT !.settings_visible = ~@, !.handled = TRUE]
    ELSE [st EXCEPT !.handled = FALSE]

slider_y(ws) == settings_panel_rect(ws).y + 50 + SECTION_SPACING + 10

min_handle_rect(ws, lo) ==
    Rect(settings_panel_rect(ws).x + PANEL_MARGIN + FloorDiv((lo - 4) * SLIDER_WIDTH, 4),
         slider_y(ws) - 4, 8, 16)

max_handle_rect(ws, hi) ==
    Rect(settings_panel_rect(ws).x + PANEL_MARGIN + 200
            + FloorDiv((hi - 4) * SLIDER_WIDTH, 4),
         slider_y(ws) - 4, 8, 16)

\* handle_slider_interaction(pos, dragging_min, dragging_max): the pair returned
handle_slider_interaction(pos, dmin, dmax, visible, ws, lo, hi) ==
    IF ~visible THEN <<dmin, dmax>>
    ELSE IF collidepoint(min_handle_rect(ws, lo), pos) THEN <<TRUE, dmax>>
    ELSE IF collidepoint(max_handle_rect(ws, hi), pos) THEN <<dmin, TRUE>>
    ELSE <<dmin, dmax>>

\* the value without the clamp of relative_x
SliderValue_Unclamped(x, slider_start) ==
    4 + FloorDiv((x - slider_start) * 4, SLIDER_WIDTH)

\* the value a slider takes for a mouse x, slider_start being its left end
SliderValue(x, slider_start) ==
    4 + FloorDiv(Max(0, Min(x - slider_start, SLIDER_WIDTH)) * 4, SLIDER_WIDTH)

\* update_sliders keeping min <= max by moving the other bound along
update_sliders_Ordered(pos, dmin, dmax, visible, ws, lo, hi) ==
    IF ~visible THEN <<lo, hi>>
    ELSE IF dmin
    THEN <<SliderValue(pos[1], settings_panel_rect(ws).x + PANEL_MARGIN),
           Max(hi, SliderValue(pos[1], settings_panel_rect(ws).x + PANEL_MARGIN))>>
    ELSE IF dmax
    THEN <<Min(lo, SliderValue(pos[1], settings_panel_rect(ws).x + PANEL_MARGIN + 200)),
           SliderValue(pos[1], settings_panel_rect(ws).x + PANEL_MARGIN + 200)>>
    ELSE <<lo, hi>>

\* update_sliders without its test of settings_visible
update_sliders_AlwaysActive(pos, dmin, dmax, visible, ws, lo, hi) ==
    IF dmin
    THEN <<SliderValue(pos[1], settings_panel_rect(ws).x + PANEL_MARGIN), hi>>
    ELSE IF dmax
    THEN <<lo, SliderValue(pos[1], settings_panel_rect(ws).x + PANEL_MARGIN + 200)>>
    ELSE <<lo, hi>>

\* update_sliders(pos, dragging_min, dragging_max): <<slider_min_value,
\* slider_max_value>> afterwards
update_sliders(pos, dmin, dmax, visible, ws, lo, hi) ==
    IF ~visible THEN <<lo, hi>>
    ELSE IF dmin
    THEN <<SliderValue(pos[1], settings_panel_rect(ws).x + PANEL_MARGIN), hi>>
    ELSE IF dmax
    THEN <<lo, SliderValue(pos[1], settings_panel_rect(ws).x + PANEL_MARGIN + 200)>>
    ELSE <<lo, hi>>

----------------------------------------------------------------------------
(* Selection: get_random_word and get_display_word *)

max_attempts == 10

\* get_random_word falling back to the whole vocabulary when nothing matches
get_random_word_Fallback(df, ts, lo, hi) ==
    IF Len(get_filtered_df(df, ts, lo, hi)) = 0
    THEN CharSet(WordList(df))
    ELSE CharSet(WordList(get_filtered_df(df, ts, lo, hi)))

\* get_random_word handing out the words lower-cased
get_random_word_Lowercased(df, ts, lo, hi) ==
    IF Len(get_filtered_df(df, ts, lo, hi)) = 0
    THEN {None}
    ELSE {LowerStr(w) : w \in CharSet(WordList(get_filtered_df(df, ts, lo, hi)))}

\* get_random_word: the values random.choice may return (None for an empty
\* filtered frame) and the words it drew from
get_random_word(df, ts, lo, hi) ==
    IF Len(get_filtered_df(df, ts, lo, hi)) = 0
    THEN {None}
    ELSE CharSet(WordList(get_filtered_df(df, ts, lo, hi)))

\* the test without the validation
CandidateAccepted_Unvalidated(word, ts, lo, hi) == word # None

\* the test of lines 727-729 and 736-738
CandidateAccepted(word, ts, lo, hi) ==
    word # None /\ validate_word_matches_filters(word, ts, lo, hi)

\* one iteration too many
AnotherDraw_OneMore(n) == n <= 1 + max_attempts

\* get_display_word draws once (line 724) and then once per iteration of
\* "for _ in range(max_attempts)" (line 735): another draw follows a rejected
\* candidate while fewer than 1 + max_attempts were made
AnotherDraw(n) == n < 1 + max_attempts

\* get_display_word run to its end with the filter state unchanged: the
\* values it may return, n draws having been made
RECURSIVE DisplayWordAfter(_, _, _, _, _)
DisplayWordAfter(n, df, ts, lo, hi) ==
    {w \in get_random_word(df, ts, lo, hi) : CandidateAccepted(w, ts, lo, hi)}
    \cup
    (IF \E w \in get_random_word(df, ts, lo, hi) : ~CandidateAccepted(w, ts, lo, hi)
     THEN IF AnotherDraw(n + 1)
          THEN DisplayWordAfter(n + 1, df, ts, lo, hi)
          ELSE {None}
     ELSE {})

get_display_word(df, ts, lo, hi) == DisplayWordAfter(0, df, ts, lo, hi)

----------------------------------------------------------------------------
(* Inputs *)

Row(w) == [Word |-> w, length |-> Len(w)]

asas == <<"a","s","a","s">>
pasa == <<"p","a","s","a">>
pasas == <<"p","a","s","a","s">>
perro == <<"p","e","r","r","o">>
escuela == <<"e","s","c","u","e","l","a">>

\* A clean store; a store with a capitalised word, an old-spelling word
\* (long s) and a word that kept its line feed; a store whose length column
\* does not agree with its words.
Stores ==
    { <<Row(asas), Row(pasa), Row(pasas), Row(perro)>>,
      <<Row(<<"A","s","a","s">>), Row(<<"a","LONG_S","a","s">>),
        Row(<<"a","s","a","s","NL">>)>>,
      <<Row(pasa), [Word |-> escuela, length |-> 4]>> }

\* Mouse positions (window coordinates).  In the 800x600 window: the
\* cogwheel; the toggle boxes of a and p and the first pixel right of a's
\* box; the three case options; the hyphenation box; the close button; the
\* slider handles at 4 and at 8; the word; a point left of the panel.
\* <<1160, 30>> is the cogwheel of the 1200x700 window.
Points ==
    { <<760, 30>>, <<1160, 30>>,
      <<210, 260>>, <<270, 290>>, <<224, 260>>,
      <<210, 370>>, <<330, 370>>, <<450, 370>>,
      <<205, 410>>,
      <<620, 100>>,
      <<204, 165>>, <<324, 165>>, <<404, 165>>, <<524, 165>>,
      <<400, 150>>,
      <<50, 300>> }

\* Mouse positions while dragging: on the slider row, where the handles of
\* both sliders sit at 4 and at 8
DragPoints == { <<204, 165>>, <<324, 165>>, <<404, 165>>, <<524, 165>> }

WindowSizes == { <<800, 600>>, <<1200, 700>> }

\* the vowels only
DefaultLetters_Vowels == {"a","e","i","o","u"}

\* the letters setup_ui_elements switches on
DefaultLetters == {"a","e","i","o","u","s","c","l"}

----------------------------------------------------------------------------
(* The session: __init__ and run *)

Settings ==
    [toggle_states |-> toggle_states, selected_case |-> selected_case,
     hyphenate_enabled |-> hyphenate_enabled, font_size |-> font_size,
     settings_visible |-> settings_visible, handled |-> FALSE]

NothingDisplayed == [word |-> None, text |-> << >>, hyphenation |-> "none"]
NothingChecked == [letters |-> {}, min |-> 0, max |-> 0]

\* no get_display_word call is running: its locals do not exist
NoCall ==
    /\ candidate_word = None
    /\ draws = 0
    /\ filter_calls = 0
    /\ drawn_from = << >>
    /\ checked = NothingChecked
    /\ result = None
    /\ interference = 0

NothingReturned == [method |-> "none", value |-> None]

\* no TextProcessor exists and there are no data files
NoProcessor ==
    /\ word_frequencies = None
    /\ word_frequencies_file = "absent"
    /\ word_frequencies_csv = None
    /\ vocabulary_csv = None
    /\ corpus_processed = FALSE
    /\ returned = NothingReturned

\* the app was constructed by a caller that handed it the store; there is no
\* CLI process
DirectlyConstructed ==
    /\ argv = None
    /\ vocabulary_file = "absent"
    /\ processor_vocabulary_df = vocabulary_df
    /\ raised = "none"
    /\ success = None
    /\ exit_code = None
    /\ NoProcessor

\* __init__(vocabulary_df): the state a constructed app enters run() in
Init ==
    /\ vocabulary_df \in Stores
    /\ toggle_states = [l \in Letters |-> l \in DefaultLetters]
    /\ slider_min_value = 4
    /\ slider_max_value = 8
    /\ selected_case = "lower"
    /\ hyphenate_enabled = FALSE
    /\ settings_visible = FALSE
    /\ window_size = <<800, 600>>
    /\ font_size = 170
    /\ dragging_min = FALSE
    /\ dragging_max = FALSE
    /\ current_word = None
    /\ displayed = NothingDisplayed
    /\ pc = "start"
    /\ NoCall
    /\ DirectlyConstructed

settingsVars == <<toggle_states, selected_case, hyphenate_enabled, font_size,
                  settings_visible>>
sliderVars == <<slider_min_value, slider_max_value>>
dragVars == <<dragging_min, dragging_max>>
selectVars == <<candidate_word, draws, filter_calls, drawn_from, checked, result,
                interference>>

\* run() taking the word it shows out of the store
RunStart_ConsumesWord ==
    /\ pc = "start"
    /\ current_word' \in get_display_word(vocabulary_df, toggle_states,
                                          slider_min_value, slider_max_value)
    /\ vocabulary_df' = SelectSeq(vocabulary_df, LAMBDA row : row.Word # current_word')
    /\ displayed' \in display_word(current_word', hyphenate_enabled, selected_case)
    /\ pc' = "events"
    /\ UNCHANGED <<cliVars, settingsVars, sliderVars, dragVars, window_size,
                   selectVars>>

\* run(), lines 752-756: current_word = self.get_display_word();
\* self.display_word(current_word)
RunStart ==
    /\ pc = "start"
    /\ current_word' \in get_display_word(vocabulary_df, toggle_states,
                                          slider_min_value, slider_max_value)
    /\ displayed' \in display_word(current_word', hyphenate_enabled, selected_case)
    /\ pc' = "events"
    /\ UNCHANGED <<cliVars, vocabulary_df, settingsVars, sliderVars, dragVars, window_size,
                   selectVars>>

\* self.display_word(current_word) at the end of a handler
Redisplay ==
    displayed' \in display_word(current_word', hyphenate_enabled', selected_case')

\* QUIT
Quit ==
    /\ pc = "events"
    /\ pc' = "quit"
    /\ UNCHANGED <<cliVars, vocabulary_df, settingsVars, sliderVars, dragVars, window_size,
                   current_word, displayed, selectVars>>

\* VIDEORESIZE selecting a new word
VideoResize_SelectsWord(size) ==
    /\ pc = "events"
    /\ window_size' = size
    /\ current_word' \in get_display_word(vocabulary_df, toggle_states,
                                          slider_min_value, slider_max_value)
    /\ UNCHANGED <<cliVars, vocabulary_df, settingsVars, sliderVars, dragVars,
                   pc, selectVars>>
    /\ Redisplay

\* VIDEORESIZE: handle_window_resize(event.size); display_word(current_word)
VideoResize(size) ==
    /\ pc = "events"
    /\ window_size' = size
    /\ UNCHANGED <<cliVars, vocabulary_df, settingsVars, sliderVars, dragVars, current_word,
                   pc, selectVars>>
    /\ Redisplay

\* MOUSEBUTTONUP
MouseButtonUp ==
    /\ pc = "events"
    /\ dragging_min' = FALSE
    /\ dragging_max' = FALSE
    /\ UNCHANGED <<cliVars, vocabulary_df, settingsVars, sliderVars, window_size,
                   current_word, displayed, pc, selectVars>>

SetSettings(st) ==
    /\ toggle_states' = st.toggle_states
    /\ selected_case' = st.selected_case
    /\ hyphenate_enabled' = st.hyphenate_enabled
    /\ font_size' = st.font_size
    /\ settings_visible' = st.settings_visible

\* MOUSEBUTTONDOWN at pos, lines 779-809
MouseButtonDown(pos) ==
    LET cog == handle_cogwheel_click(Settings, pos, window_size)
        panel == handle_settings_panel_click(Settings, pos, window_size)
        drag == handle_slider_interaction(pos, dragging_min, dragging_max,
                    settings_visible, window_size, slider_min_value, slider_max_value)
        display_text == IF current_word # None THEN current_word ELSE NoWords
    IN
    /\ pc = "events"
    /\ IF cog.handled
       THEN /\ SetSettings(cog)
            /\ UNCHANGED <<dragVars, current_word, pc, selectVars>>
            /\ Redisplay
       ELSE IF panel.handled
       THEN /\ SetSettings(panel)
            /\ UNCHANGED <<dragVars, current_word, pc, selectVars>>
            /\ Redisplay
       ELSE /\ UNCHANGED settingsVars
            /\ dragging_min' = drag[1]
            /\ dragging_max' = drag[2]
            /\ IF /\ ~settings_visible
                  /\ collidepoint(word_rect(display_text, window_size, font_size), pos)
               THEN /\ current_word' \in get_display_word(vocabulary_df,
                            toggle_states, slider_min_value, slider_max_value)
                    /\ Redisplay
               ELSE UNCHANGED <<current_word, displayed>>
            /\ UNCHANGED <<pc, selectVars>>
    /\ UNCHANGED <<cliVars, vocabulary_df, sliderVars, window_size>>

\* MOUSEMOTION at pos, lines 811-815
MouseMotion(pos) ==
    LET sliders == update_sliders(pos, dragging_min, dragging_max, settings_visible,
                       window_size, slider_min_value, slider_max_value)
    IN
    /\ pc = "events"
    /\ dragging_min \/ dragging_max
    /\ slider_min_value' = sliders[1]
    /\ slider_max_value' = sliders[2]
    /\ UNCHANGED <<cliVars, vocabulary_df, settingsVars, dragVars, window_size, current_word,
                   pc, selectVars>>
    /\ Redisplay

\* lines 817-822: the redraw when the cogwheel's hover state changed
HoverRedraw ==
    /\ pc = "events"
    /\ UNCHANGED <<cliVars, vocabulary_df, settingsVars, sliderVars, dragVars, window_size,
                   current_word, pc, selectVars>>
    /\ Redisplay

Next ==
    \/ RunStart
    \/ Quit
    \/ \E size \in WindowSizes : VideoResize(size)
    \/ MouseButtonUp
    \/ \E pos \in Points : MouseButtonDown(pos)
    \/ \E pos \in DragPoints : MouseMotion(pos)
    \/ HoverRedraw

Spec == Init /\ [][Next]_vars

----------------------------------------------------------------------------
(* The run loop with every kind of event, the font-size buttons included *)

\* Mouse positions in the 800x600 window: the cogwheel; the toggle boxes of
\* a and p; the case option UPPER; the hyphenation box; the font-size
\* buttons "-" and "+"; the handle of the minimum slider at 4; the word; a
\* point left of the panel
EventPoints ==
    { <<760, 30>>, <<210, 260>>, <<270, 290>>, <<330, 370>>, <<205, 410>>,
      <<205, 495>>, <<240, 495>>, <<204, 165>>, <<400, 150>>, <<50, 300>> }

\* Mouse positions while dragging: the minimum slider at 4 and at 8
EventDragPoints == { <<204, 165>>, <<324, 165>> }

\* __init__ with a store whose length column agrees with its words
InitEvents ==
    /\ Init
    /\ vocabulary_df = <<Row(asas), Row(pasa), Row(pasas), Row(perro)>>

NextEvents ==
    \/ RunStart
    \/ Quit
    \/ \E size \in WindowSizes : VideoResize(size)
    \/ MouseButtonUp
    \/ \E pos \in EventPoints : MouseButtonDown(pos)
    \/ \E pos \in EventDragPoints : MouseMotion(pos)
    \/ HoverRedraw

SpecEvents == InitEvents /\ [][NextEvents]_vars

----------------------------------------------------------------------------
(* One get_display_word call, statement by statement *)

\* the letter sets of the calls: any of a, p, s, with or without the other
\* letters setup_ui_elements switches on
PoolLetters == {"a", "p", "s"}
CallLetterSets ==
    {base \cup sub : base \in {{}, DefaultLetters \ PoolLetters},
                     sub \in SUBSET PoolLetters}

\* a session about to call get_display_word, the user having set any of
\* these letters and any slider values
InitSelect ==
    /\ vocabulary_df \in Stores
    /\ toggle_states \in {[l \in Letters |-> l \in A] : A \in CallLetterSets}
    /\ slider_min_value \in 4..8
    /\ slider_max_value \in 4..8
    /\ selected_case = "lower"
    /\ hyphenate_enabled = FALSE
    /\ settings_visible = FALSE
    /\ window_size = <<800, 600>>
    /\ font_size = 170
    /\ dragging_min = FALSE
    /\ dragging_max = FALSE
    /\ current_word = None
    /\ displayed = NothingDisplayed
    /\ pc = "call"
    /\ NoCall
    /\ DirectlyConstructed

\* entering get_display_word
Call ==
    /\ pc = "call"
    /\ pc' = "draw"
    /\ UNCHANGED <<cliVars, vocabulary_df, settingsVars, sliderVars, dragVars, window_size,
                   current_word, displayed, selectVars>>

\* a draw that leaves out the word drawn before
Draw_WithoutRepeats ==
    /\ pc = "draw"
    /\ drawn_from' = SelectSeq(WordList(get_filtered_df(vocabulary_df, toggle_states,
                                    slider_min_value, slider_max_value)),
                               LAMBDA w : w # candidate_word)
    /\ candidate_word' \in IF drawn_from' = << >> THEN {None} ELSE CharSet(drawn_from')
    /\ draws' = draws + 1
    /\ filter_calls' = filter_calls + 1
    /\ pc' = "check"
    /\ UNCHANGED <<cliVars, vocabulary_df, settingsVars, sliderVars, dragVars, window_size,
                   current_word, displayed, checked, result, interference>>

\* candidate_word = self.get_random_word()
Draw ==
    /\ pc = "draw"
    /\ candidate_word' \in get_random_word(vocabulary_df, toggle_states,
                                           slider_min_value, slider_max_value)
    /\ drawn_from' = WordList(get_filtered_df(vocabulary_df, toggle_states,
                                              slider_min_value, slider_max_value))
    /\ draws' = draws + 1
    /\ filter_calls' = filter_calls + 1
    /\ pc' = "check"
    /\ UNCHANGED <<cliVars, vocabulary_df, settingsVars, sliderVars, dragVars, window_size,
                   current_word, displayed, checked, result, interference>>

\* the validation of the candidate and what follows it: return it, draw
\* again, or return None
Check ==
    /\ pc = "check"
    /\ checked' = IF candidate_word = None THEN checked
                  ELSE [letters |-> ActiveLetters(toggle_states),
                        min |-> slider_min_value, max |-> slider_max_value]
    /\ IF CandidateAccepted(candidate_word, toggle_states,
                            slider_min_value, slider_max_value)
       THEN result' = candidate_word /\ pc' = "return"
       ELSE IF AnotherDraw(draws)
       THEN result' = result /\ pc' = "draw"
       ELSE result' = None /\ pc' = "return"
    /\ UNCHANGED <<cliVars, vocabulary_df, settingsVars, sliderVars, dragVars, window_size,
                   current_word, displayed, candidate_word, draws, filter_calls,
                   drawn_from, interference>>

\* back in run(): current_word = <the word returned>; display_word(current_word)
Return ==
    /\ pc = "return"
    /\ current_word' = result
    /\ displayed' \in display_word(result, hyphenate_enabled, selected_case)
    /\ pc' = "events"
    /\ candidate_word' = None
    /\ draws' = 0
    /\ filter_calls' = 0
    /\ drawn_from' = << >>
    /\ checked' = NothingChecked
    /\ result' = None
    /\ interference' = 0
    /\ UNCHANGED <<cliVars, vocabulary_df, settingsVars, sliderVars, dragVars, window_size>>


NextSelect ==
    \/ Call
    \/ Draw
    \/ Check
    \/ Return

SpecSelect == InitSelect /\ [][NextSelect]_vars

\* get_display_word runs on the one thread of the event loop: once called,
\* it keeps taking its steps
SpecSelectFair == SpecSelect /\ WF_vars(NextSelect)

----------------------------------------------------------------------------
(* The call with another actor changing the filter state while it runs *)

MaxInterference == 2

\* Another actor toggles a letter or moves a slider while get_display_word
\* runs.  A write that falls between two reads of one statement
\* (validate_word_matches_filters reads the letters, then the sliders) acts
\* as a write before or after the statement, the fields being written one
\* at a time.
Interfere ==
    /\ pc \in {"draw", "check"}
    /\ interference < MaxInterference
    /\ interference' = interference + 1
    /\ \/ /\ \E l \in PoolLetters : toggle_states' = FlipLetter(toggle_states, l)
          /\ UNCHANGED sliderVars
       \/ /\ \E v \in {4, 8} : slider_min_value' = v
          /\ UNCHANGED <<toggle_states, slider_max_value>>
       \/ /\ \E v \in {4, 8} : slider_max_value' = v
          /\ UNCHANGED <<toggle_states, slider_min_value>>
    /\ UNCHANGED <<cliVars, vocabulary_df, selected_case, hyphenate_enabled, font_size,
                   settings_visible, dragVars, window_size, current_word, displayed,
                   pc, candidate_word, draws, filter_calls, drawn_from, checked,
                   result>>

\* the constructed app, about to call get_display_word
InitConc ==
    /\ vocabulary_df \in Stores
    /\ toggle_states = [l \in Letters |-> l \in DefaultLetters]
    /\ slider_min_value = 4
    /\ slider_max_value = 8
    /\ selected_case = "lower"
    /\ hyphenate_enabled = FALSE
    /\ settings_visible = FALSE
    /\ window_size = <<800, 600>>
    /\ font_size = 170
    /\ dragging_min = FALSE
    /\ dragging_max = FALSE
    /\ current_word = None
    /\ displayed = NothingDisplayed
    /\ pc = "call"
    /\ NoCall
    /\ DirectlyConstructed

NextConc ==
    \/ Call
    \/ Draw
    \/ Check
    \/ Return
    \/ Interfere

SpecConc == InitConc /\ [][NextConc]_vars

----------------------------------------------------------------------------
(* The open settings panel *)

\* In the 800x600 window: the toggle boxes of a, p and s, the first pixel
\* right of a's box, the case option UPPER, the hyphenation box
PanelPoints ==
    { <<210, 260>>, <<270, 290>>, <<360, 290>>, <<224, 260>>, <<330, 370>>,
      <<205, 410>> }

\* a session showing "no words" with the panel open, some letter on
InitPanel ==
    /\ vocabulary_df \in Stores
    /\ toggle_states \in {[l \in Letters |-> l \in A] : A \in CallLetterSets \ {{}}}
    /\ slider_min_value = 4
    /\ slider_max_value = 8
    /\ selected_case = "lower"
    /\ hyphenate_enabled = FALSE
    /\ settings_visible = TRUE
    /\ window_size = <<800, 600>>
    /\ font_size = 170
    /\ dragging_min = FALSE
    /\ dragging_max = FALSE
    /\ current_word = None
    /\ displayed \in display_word(None, FALSE, "lower")
    /\ pc = "events"
    /\ NoCall
    /\ DirectlyConstructed

NextPanel == \E pos \in PanelPoints : MouseButtonDown(pos)

SpecPanel == InitPanel /\ [][NextPanel]_vars

----------------------------------------------------------------------------
(* Dragging the sliders *)

\* Mouse positions on the slider row of the 800x600 window: left of the
\* window and right of it (the mouse is followed while a button is held),
\* the handles of both sliders at each of their five values, points between
\* handles; and the cogwheel.
SliderPoints ==
    { <<-10, 165>>, <<204, 165>>, <<215, 165>>, <<234, 165>>, <<264, 165>>,
      <<294, 165>>, <<324, 165>>, <<350, 165>>, <<404, 165>>, <<434, 165>>,
      <<464, 165>>, <<494, 165>>, <<524, 165>>, <<900, 165>>,
      <<760, 30>> }

NextSliders ==
    \/ RunStart
    \/ MouseButtonUp
    \/ \E pos \in SliderPoints : MouseButtonDown(pos)
    \/ \E pos \in SliderPoints : MouseMotion(pos)

SpecSliders == Init /\ [][NextSliders]_vars

----------------------------------------------------------------------------
(* TextProcessor: the word frequencies, the vocabulary and their files *)

\* an empty DataFrame
EmptyFrame == << >>

\* a cell pandas read as missing
NaN == <<"NaN">>

\* the length str.len() gives a missing word: no number (NaN), here -1
NaNLength == 0 - 1

\* words read_csv takes for missing values (its default na_values)
nan_word == <<"n","a","n">>
NaStrings == {nan_word, <<"n","u","l","l">>}

\* DataFrame.to_csv followed by pd.read_csv, on rows with a Word column: the
\* other cells of the model come back as they were written
CsvRead(rows) ==
    [i \in 1..Len(rows) |->
        IF rows[i].Word \in NaStrings THEN [rows[i] EXCEPT !.Word = NaN] ELSE rows[i]]

\* df.sort_values(by="Frequency", ascending=False), the counts being distinct
RECURSIVE SortByCountDescending(_)
SortByCountDescending(items) ==
    IF items = << >> THEN << >>
    ELSE LET top == CHOOSE i \in 1..Len(items) :
                        \A j \in 1..Len(items) : items[j].Count <= items[i].Count
         IN <<items[top]>> \o
            SortByCountDescending([k \in 1..(Len(items) - 1) |->
                                      IF k < top THEN items[k] ELSE items[k + 1]])

\* a file os.path.exists finds, and a file pd.read_csv reads
FileExists(file) == file # "absent"
FileReadable(file) == file \in {"readable", "written"}

\* the processor and the data files as one value, for the methods below
Processor ==
    [word_frequencies |-> word_frequencies,
     vocabulary_df |-> processor_vocabulary_df,
     word_frequencies_file |-> word_frequencies_file,
     word_frequencies_csv |-> word_frequencies_csv,
     vocabulary_file |-> vocabulary_file,
     vocabulary_csv |-> vocabulary_csv,
     corpus_processed |-> corpus_processed,
     returned |-> returned]

\* TextProcessor(...): word_frequencies = {}, vocabulary_df = pd.DataFrame()
NewProcessor ==
    [Processor EXCEPT !.word_frequencies = << >>, !.vocabulary_df = EmptyFrame]

SetProcessor(P) ==
    /\ word_frequencies' = P.word_frequencies
    /\ processor_vocabulary_df' = P.vocabulary_df
    /\ word_frequencies_file' = P.word_frequencies_file
    /\ word_frequencies_csv' = P.word_frequencies_csv
    /\ vocabulary_file' = P.vocabulary_file
    /\ vocabulary_csv' = P.vocabulary_csv
    /\ corpus_processed' = P.corpus_processed
    /\ returned' = P.returned

Returned(method, value) == [method |-> method, value |-> value]

\* process_all_corpus_files(): without the corpus directory it returns {} and
\* leaves word_frequencies; otherwise word_frequencies is what the files hold
process_all_corpus_files(P, dir_exists, corpus) ==
    IF ~dir_exists
    THEN [P EXCEPT !.corpus_processed = TRUE,
                   !.returned = Returned("process_all_corpus_files", << >>)]
    ELSE [P EXCEPT !.word_frequencies = corpus,
                   !.corpus_processed = TRUE,
                   !.returned = Returned("process_all_corpus_files", corpus)]

\* save_word_frequencies()
save_word_frequencies(P) ==
    IF P.word_frequencies = << >>
    THEN [P EXCEPT !.returned = Returned("save_word_frequencies", None)]
    ELSE [P EXCEPT !.word_frequencies_file = "written",
                   !.word_frequencies_csv = SortByCountDescending(P.word_frequencies),
                   !.returned = Returned("save_word_frequencies", None)]

\* load_word_frequencies()
load_word_frequencies(P) ==
    IF FileReadable(P.word_frequencies_file)
    THEN [P EXCEPT !.word_frequencies = CsvRead(P.word_frequencies_csv),
                   !.returned = Returned("load_word_frequencies", TRUE)]
    ELSE [P EXCEPT !.returned = Returned("load_word_frequencies", FALSE)]

\* the Count read_word_list gives a word: its frequency, 0 when it has none
CountOf(wf, word) ==
    IF \E i \in 1..Len(wf) : wf[i].Word = word
    THEN wf[CHOOSE i \in 1..Len(wf) : wf[i].Word = word].Count
    ELSE 0

\* drop_duplicates(subset=["Word"]): the first row of each word stays
DropDuplicates(rows) ==
    LET keep == {i \in 1..Len(rows) : \A j \in 1..(i - 1) : rows[j].Word # rows[i].Word}
        F[i \in 0..Len(rows)] ==
            IF i = 0 THEN << >>
            ELSE IF i \in keep THEN Append(F[i - 1], rows[i]) ELSE F[i - 1]
    IN F[Len(rows)]

\* the rows create_vocabulary_dataframe keeps, with ">=" for its ">"
KeptRows_AtLeast(wf, word_list, min_frequency) ==
    IF word_list = << >>
    THEN SelectSeq(wf, LAMBDA item : item.Count >= min_frequency)
    ELSE SelectSeq([i \in 1..Len(word_list) |->
                       [Word |-> LowerStr(word_list[i]),
                        Count |-> CountOf(wf, LowerStr(word_list[i]))]],
                   LAMBDA item : item.Count >= min_frequency)

\* the rows create_vocabulary_dataframe keeps: of the word frequencies when
\* there are no word-list files (word_list empty), otherwise of the listed
\* words, lower-cased, with their frequencies
KeptRows(wf, word_list, min_frequency) ==
    IF word_list = << >>
    THEN SelectSeq(wf, LAMBDA item : item.Count > min_frequency)
    ELSE SelectSeq([i \in 1..Len(word_list) |->
                       [Word |-> LowerStr(word_list[i]),
                        Count |-> CountOf(wf, LowerStr(word_list[i]))]],
                   LAMBDA item : item.Count > min_frequency)

\* filtered_df["length"] = filtered_df["Word"].str.len(), missing for a
\* missing word; the store of the model keeps the columns Word and length
WithLength(rows) ==
    [i \in 1..Len(rows) |->
        IF rows[i].Word = NaN THEN [Word |-> NaN, length |-> NaNLength]
        ELSE Row(rows[i].Word)]

\* create_vocabulary_dataframe(min_frequency)
create_vocabulary_dataframe(P, word_list, min_frequency) ==
    IF P.word_frequencies = << >>
    THEN [P EXCEPT !.returned = Returned("create_vocabulary_dataframe", EmptyFrame)]
    ELSE LET created == DropDuplicates(WithLength(
                            KeptRows(P.word_frequencies, word_list, min_frequency)))
         IN [P EXCEPT !.vocabulary_df = created,
                      !.returned = Returned("create_vocabulary_dataframe", created)]

\* save_vocabulary writing nothing
save_vocabulary_Skipped(P) ==
    [P EXCEPT !.returned = Returned("save_vocabulary", None)]

\* save_vocabulary()
save_vocabulary(P) ==
    IF P.vocabulary_df = EmptyFrame
    THEN [P EXCEPT !.returned = Returned("save_vocabulary", None)]
    ELSE [P EXCEPT !.vocabulary_file = "written",
                   !.vocabulary_csv = P.vocabulary_df,
                   !.returned = Returned("save_vocabulary", None)]

\* load_vocabulary emptying the store before it reads
load_vocabulary_ClearsFirst(P) ==
    IF FileReadable(P.vocabulary_file)
    THEN [P EXCEPT !.vocabulary_df = CsvRead(P.vocabulary_csv),
                   !.returned = Returned("load_vocabulary", TRUE)]
    ELSE [P EXCEPT !.vocabulary_df = EmptyFrame,
                   !.returned = Returned("load_vocabulary", FALSE)]

\* load_vocabulary(): the assignment to vocabulary_df is the last thing the
\* try block can fail before
load_vocabulary(P) ==
    IF FileReadable(P.vocabulary_file)
    THEN [P EXCEPT !.vocabulary_df = CsvRead(P.vocabulary_csv),
                   !.returned = Returned("load_vocabulary", TRUE)]
    ELSE [P EXCEPT !.returned = Returned("load_vocabulary", FALSE)]

\* word frequencies of corpora
wf_a ==
    <<[Word |-> asas, Count |-> 5], [Word |-> pasa, Count |-> 3],
      [Word |-> perro, Count |-> 4], [Word |-> escuela, Count |-> 2]>>
wf_low == <<[Word |-> pasa, Count |-> 3], [Word |-> asas, Count |-> 1]>>
wf_nan == <<[Word |-> pasas, Count |-> 4], [Word |-> nan_word, Count |-> 7]>>

Corpora == {<< >>, wf_a, wf_low}

\* what the files may hold when the process starts
FileFrames == Stores \cup {EmptyFrame}
FileFrequencies == {<< >>, SortByCountDescending(wf_a)}

\* the word-list files 04.txt .. 08.txt: none, or these words
WordLists == {<< >>, <<<<"A","s","a","s">>, perro, asas, pasa>>}

MinFrequencies == {2, 3, 4}

appVars == <<vocabulary_df, settingsVars, sliderVars, dragVars, window_size,
             current_word, displayed, selectVars>>

\* no FlashCardApp object exists: its fields have no value
AppAbsent ==
    /\ vocabulary_df = None
    /\ toggle_states = None
    /\ slider_min_value = None
    /\ slider_max_value = None
    /\ selected_case = None
    /\ hyphenate_enabled = None
    /\ settings_visible = None
    /\ window_size = None
    /\ font_size = None
    /\ dragging_min = None
    /\ dragging_max = None
    /\ current_word = None
    /\ displayed = NothingDisplayed
    /\ NoCall

\* a fresh TextProcessor, the data files in any state
InitProcessor ==
    /\ AppAbsent
    /\ pc = "processor"
    /\ argv = None
    /\ raised = "none"
    /\ success = None
    /\ exit_code = None
    /\ word_frequencies = << >>
    /\ processor_vocabulary_df = EmptyFrame
    /\ corpus_processed = FALSE
    /\ returned = NothingReturned
    /\ \/ vocabulary_file \in {"absent", "unreadable"} /\ vocabulary_csv = None
       \/ vocabulary_file = "readable" /\ vocabulary_csv \in FileFrames
    /\ \/ word_frequencies_file \in {"absent", "unreadable"} /\ word_frequencies_csv = None
       \/ word_frequencies_file = "readable" /\ word_frequencies_csv \in FileFrequencies

ProcessorCall(P) ==
    /\ pc = "processor"
    /\ SetProcessor(P)
    /\ UNCHANGED <<argv, raised, success, exit_code, pc>>
    /\ UNCHANGED <<vocabulary_df, settingsVars, sliderVars, dragVars, window_size,
                   current_word, displayed, selectVars>>

ProcessCorpus ==
    \/ ProcessorCall(process_all_corpus_files(Processor, FALSE, << >>))
    \/ \E corpus \in Corpora \cup {wf_nan} :
          ProcessorCall(process_all_corpus_files(Processor, TRUE, corpus))

SaveWordFrequencies == ProcessorCall(save_word_frequencies(Processor))

LoadWordFrequencies == ProcessorCall(load_word_frequencies(Processor))

CreateVocabulary ==
    \E word_list \in WordLists : \E min_frequency \in MinFrequencies :
        ProcessorCall(create_vocabulary_dataframe(Processor, word_list, min_frequency))

SaveVocabulary == ProcessorCall(save_vocabulary(Processor))

LoadVocabulary == ProcessorCall(load_vocabulary(Processor))

NextProcessor ==
    \/ ProcessCorpus
    \/ SaveWordFrequencies
    \/ LoadWordFrequencies
    \/ CreateVocabulary
    \/ SaveVocabulary
    \/ LoadVocabulary

SpecProcessor == InitProcessor /\ [][NextProcessor]_vars

----------------------------------------------------------------------------
(* The command line: FlashReadCLI.run, command_run, and the construction of *)
(* FlashCardApp, statement by statement                                    *)

\* the command lines tried: no command, the two commands, "generate" with
\* --force, a word that is no command, the help option, an option "run" does
\* not have
CommandLines ==
    { << >>, <<"generate">>, <<"generate", "--force">>, <<"run">>, <<"bogus">>,
      <<"--help">>, <<"run", "--nope">> }

\* --min-frequency: default=3
DefaultMinFrequency == 3

\* self.parser.parse_args() on the parser setup_parser builds: what it returns
\* (command is "" for the None of a missing command) or the status with which
\* argparse ends the process (SystemExit) after printing the help or an error
parse_args(a) ==
    IF a = << >>
    THEN [exits |-> FALSE, code |-> 0, command |-> "", force |-> FALSE,
          min_frequency |-> DefaultMinFrequency]
    ELSE IF a[1] = "--help"
    THEN [exits |-> TRUE, code |-> 0, command |-> "", force |-> FALSE,
          min_frequency |-> DefaultMinFrequency]
    ELSE IF a[1] \in {"generate", "run"} /\ Len(a) = 1
    THEN [exits |-> FALSE, code |-> 0, command |-> a[1], force |-> FALSE,
          min_frequency |-> DefaultMinFrequency]
    ELSE IF a = <<"generate", "--force">>
    THEN [exits |-> FALSE, code |-> 0, command |-> "generate", force |-> TRUE,
          min_frequency |-> DefaultMinFrequency]
    ELSE [exits |-> TRUE, code |-> 2, command |-> "", force |-> FALSE,
          min_frequency |-> DefaultMinFrequency]

\* where an exception raised inside "try: app = FlashCardApp(...); app.run()"
\* lands: the except clauses of command_run take a ValueError and any other
\* Exception; a KeyboardInterrupt passes them and reaches those of run();
\* without a CLI process the exception reaches the caller
HandlerInTry(kind) ==
    IF argv = None THEN "propagated"
    ELSE IF kind \in {"ValueError", "Exception"} THEN "except_command_run"
    ELSE "except_run"

\* a process started with a command line, the data files in any state; or a
\* caller about to construct FlashCardApp with any argument
InitCli ==
    /\ AppAbsent
    /\ raised = "none"
    /\ success = None
    /\ exit_code = None
    /\ \/ /\ argv \in CommandLines
          /\ \/ vocabulary_file \in {"absent", "unreadable"} /\ vocabulary_csv = None
             \/ vocabulary_file = "readable" /\ vocabulary_csv \in FileFrames
          /\ \/ /\ word_frequencies_file \in {"absent", "unreadable"}
                /\ word_frequencies_csv = None
             \/ /\ word_frequencies_file = "readable"
                /\ word_frequencies_csv \in FileFrequencies
          /\ word_frequencies = None
          /\ processor_vocabulary_df = None
          /\ corpus_processed = FALSE
          /\ returned = NothingReturned
          /\ pc = "main"
       \/ /\ argv = None
          /\ NoProcessor
          /\ vocabulary_file = "absent"
          /\ processor_vocabulary_df \in {None, EmptyFrame} \cup Stores
          /\ pc = "init"

\* FlashReadCLI.run(), lines 231-244: parse the command line and enter the
\* command.  parse_args is called before the try statement and SystemExit is
\* no Exception: it ends the process with argparse's status.
CliRun ==
    /\ pc = "main"
    /\ LET args == parse_args(argv) IN
       IF args.exits
       THEN /\ raised' = "SystemExit"
            /\ exit_code' = args.code
            /\ pc' = "exited"
            /\ UNCHANGED success
       ELSE IF args.command = ""
       THEN /\ success' = FALSE
            /\ pc' = "run_returned"
            /\ UNCHANGED <<raised, exit_code>>
       ELSE IF args.command = "generate"
       THEN /\ pc' = "command_generate"
            /\ UNCHANGED <<raised, success, exit_code>>
       ELSE IF args.command = "run"
       THEN /\ pc' = "command_run"
            /\ UNCHANGED <<raised, success, exit_code>>
       ELSE /\ success' = FALSE
            /\ pc' = "run_returned"
            /\ UNCHANGED <<raised, exit_code>>
    /\ UNCHANGED <<processorVars, argv, vocabulary_file, processor_vocabulary_df, appVars>>

\* how a command goes on after its calls on the processor: it returns a
\* value to run(), an exception leaves it, or it reaches its next statement
CommandReturns(P, value) ==
    /\ SetProcessor(P)
    /\ success' = value
    /\ pc' = "run_returned"
    /\ UNCHANGED raised

CommandRaises(P) ==
    /\ SetProcessor(P)
    /\ raised' = "Exception"
    /\ pc' = "except_run"
    /\ UNCHANGED success

CommandContinues(P, next) ==
    /\ SetProcessor(P)
    /\ pc' = next
    /\ UNCHANGED <<raised, success>>

\* command_generate(args), lines 121-162: process the corpus, save the word
\* frequencies, create the vocabulary and save it.  to_csv raises when the
\* data directory cannot be written.
Generate(P, args) ==
    \E dir_exists \in BOOLEAN, corpus \in Corpora, word_list \in WordLists,
       writable \in BOOLEAN :
        LET processed == process_all_corpus_files(P, dir_exists, corpus) IN
        IF processed.returned.value = << >>
        THEN CommandReturns(processed, FALSE)
        ELSE IF ~writable
        THEN CommandRaises(processed)
        ELSE LET saved == save_word_frequencies(processed)
                 created == create_vocabulary_dataframe(saved, word_list,
                                                        args.min_frequency)
             IN IF created.returned.value = EmptyFrame
                THEN CommandReturns(created, FALSE)
                ELSE CommandReturns(save_vocabulary(created), TRUE)

\* command_generate(args), lines 94-119: without --force and with both data
\* files there, load them; when both loads succeed print the statistics
\* (stats['total_words'] is a KeyError for an empty frame, see
\* get_vocabulary_stats) and return True; otherwise go on to process
command_generate ==
    /\ pc = "command_generate"
    /\ LET args == parse_args(argv) IN
       IF ~args.force /\ FileExists(word_frequencies_file) /\ FileExists(vocabulary_file)
       THEN LET frequencies == load_word_frequencies(NewProcessor) IN
            IF ~frequencies.returned.value
            THEN Generate(frequencies, args)
            ELSE LET loaded == load_vocabulary(frequencies) IN
                 IF ~loaded.returned.value
                 THEN Generate(loaded, args)
                 ELSE IF loaded.vocabulary_df = EmptyFrame
                 THEN CommandRaises(loaded)
                 ELSE CommandReturns(loaded, TRUE)
       ELSE Generate(NewProcessor, args)
    /\ UNCHANGED <<argv, exit_code, appVars>>

\* command_run(args), lines 185-203: load the word frequencies or process
\* the corpus and save them, create the vocabulary with the default
\* min_frequency and save it
GenerateForRun(P) ==
    \E dir_exists \in BOOLEAN, corpus \in Corpora, word_list \in WordLists,
       writable \in BOOLEAN :
        LET frequencies == load_word_frequencies(P)
            processed == process_all_corpus_files(frequencies, dir_exists, corpus)
            ready == IF frequencies.returned.value THEN frequencies
                     ELSE save_word_frequencies(processed)
            created == create_vocabulary_dataframe(ready, word_list, DefaultMinFrequency)
        IN IF ~frequencies.returned.value /\ processed.returned.value = << >>
           THEN CommandReturns(processed, FALSE)
           ELSE IF ~frequencies.returned.value /\ ~writable
           THEN CommandRaises(processed)
           ELSE IF created.returned.value = EmptyFrame
           THEN CommandReturns(created, FALSE)
           ELSE IF ~writable
           THEN CommandRaises(created)
           ELSE CommandContinues(save_vocabulary(created), "stats")

\* command_run(args), lines 171-203: load the vocabulary file when it exists,
\* otherwise generate the vocabulary
command_run_load ==
    /\ pc = "command_run"
    /\ IF FileExists(vocabulary_file)
       THEN LET loaded == load_vocabulary(NewProcessor) IN
            IF ~loaded.returned.value
            THEN CommandReturns(loaded, FALSE)
            ELSE CommandContinues(loaded, "stats")
       ELSE GenerateForRun(NewProcessor)
    /\ UNCHANGED <<argv, exit_code, appVars>>

\* command_run(args), lines 205-216: get_vocabulary_stats() returns
\* {"error": ...} for an empty frame and stats['total_words'] is a KeyError,
\* raised before the try statement; otherwise FlashCardApp is called
command_run_stats ==
    /\ pc = "stats"
    /\ IF processor_vocabulary_df = EmptyFrame
       THEN /\ raised' = "Exception"
            /\ pc' = "except_run"
       ELSE /\ pc' = "init"
            /\ UNCHANGED raised
    /\ UNCHANGED <<processorVars, argv, vocabulary_file, processor_vocabulary_df, success,
                   exit_code, appVars>>

\* the test of __init__ catching None only
InitRejects_NoneOnly(frame) == frame = None

\* vocabulary_df is None or vocabulary_df.empty
InitRejects(frame) == frame = None \/ frame = EmptyFrame

\* FlashCardApp.__init__, lines 28-31
FlashCardApp ==
    /\ pc = "init"
    /\ IF InitRejects(processor_vocabulary_df)
       THEN /\ raised' = "ValueError"
            /\ pc' = HandlerInTry("ValueError")
            /\ UNCHANGED vocabulary_df
       ELSE /\ vocabulary_df' = processor_vocabulary_df
            /\ pc' = "setup_pygame"
            /\ UNCHANGED raised
    /\ UNCHANGED <<processorVars, argv, vocabulary_file, processor_vocabulary_df, success,
                   exit_code, settingsVars, sliderVars, dragVars, window_size,
                   current_word, displayed, selectVars>>

\* setup_pygame: the window is opened, or pygame fails (no display)
setup_pygame ==
    /\ pc = "setup_pygame"
    /\ \/ /\ window_size' = <<800, 600>>
          /\ pc' = "setup_colors_and_fonts"
          /\ UNCHANGED raised
       \/ /\ raised' = "Exception"
          /\ pc' = HandlerInTry("Exception")
          /\ UNCHANGED window_size
    /\ UNCHANGED <<processorVars, argv, vocabulary_file, processor_vocabulary_df, success,
                   exit_code, vocabulary_df, settingsVars, sliderVars, dragVars,
                   current_word, displayed, selectVars>>

setup_colors_and_fonts ==
    /\ pc = "setup_colors_and_fonts"
    /\ font_size' = 170
    /\ pc' = "setup_settings_panel"
    /\ UNCHANGED <<cliVars, vocabulary_df, toggle_states, selected_case,
                   hyphenate_enabled, settings_visible, sliderVars, dragVars,
                   window_size, current_word, displayed, selectVars>>

setup_settings_panel ==
    /\ pc = "setup_settings_panel"
    /\ settings_visible' = FALSE
    /\ pc' = "setup_ui_elements"
    /\ UNCHANGED <<cliVars, vocabulary_df, toggle_states, selected_case,
                   hyphenate_enabled, font_size, sliderVars, dragVars,
                   window_size, current_word, displayed, selectVars>>

setup_ui_elements ==
    /\ pc = "setup_ui_elements"
    /\ slider_min_value' = 4
    /\ slider_max_value' = 8
    /\ toggle_states' = [l \in Letters |-> l \in DefaultLetters]
    /\ selected_case' = "lower"
    /\ hyphenate_enabled' = FALSE
    /\ pc' = "constructed"
    /\ UNCHANGED <<cliVars, vocabulary_df, settings_visible, font_size, dragVars,
                   window_size, current_word, displayed, selectVars>>

\* app.run(), lines 746-752: return at once on an empty store, otherwise
\* dragging_min = dragging_max = False
AppRun ==
    /\ pc = "constructed"
    /\ IF vocabulary_df = EmptyFrame
       THEN pc' = "quit" /\ UNCHANGED dragVars
       ELSE /\ dragging_min' = FALSE
            /\ dragging_max' = FALSE
            /\ pc' = "start"
    /\ UNCHANGED <<cliVars, vocabulary_df, settingsVars, sliderVars, window_size,
                   current_word, displayed, selectVars>>

\* Ctrl-C while a command runs
KeyboardInterrupt ==
    /\ argv # None
    /\ pc \in {"command_generate", "command_run", "stats", "init", "setup_pygame",
               "setup_colors_and_fonts", "setup_settings_panel",
               "setup_ui_elements", "constructed", "start", "events"}
    /\ raised' = "KeyboardInterrupt"
    /\ pc' = "except_run"
    /\ UNCHANGED <<processorVars, argv, vocabulary_file, processor_vocabulary_df, success,
                   exit_code, appVars>>

\* command_run, lines 219-224: except ValueError / except Exception
command_run_except ==
    /\ pc = "except_command_run"
    /\ raised' = "none"
    /\ success' = FALSE
    /\ pc' = "run_returned"
    /\ UNCHANGED <<processorVars, argv, vocabulary_file, processor_vocabulary_df, exit_code,
                   appVars>>

\* command_run, lines 226-227: app.run() returned
command_run_return ==
    /\ pc = "quit"
    /\ argv # None
    /\ success' = TRUE
    /\ pc' = "run_returned"
    /\ UNCHANGED <<processorVars, argv, vocabulary_file, processor_vocabulary_df, raised,
                   exit_code, appVars>>

\* FlashReadCLI.run(), lines 246-251: except KeyboardInterrupt / except Exception
cli_run_except ==
    /\ pc = "except_run"
    /\ raised' = "none"
    /\ success' = FALSE
    /\ pc' = "run_returned"
    /\ UNCHANGED <<processorVars, argv, vocabulary_file, processor_vocabulary_df, exit_code,
                   appVars>>

\* main(): sys.exit(0 if success else 1)
main_exit ==
    /\ pc = "run_returned"
    /\ exit_code' = IF success THEN 0 ELSE 1
    /\ pc' = "exited"
    /\ UNCHANGED <<processorVars, argv, vocabulary_file, processor_vocabulary_df, raised,
                   success, appVars>>

NextCli ==
    \/ CliRun
    \/ command_generate
    \/ command_run_load
    \/ command_run_stats
    \/ FlashCardApp
    \/ setup_pygame
    \/ setup_colors_and_fonts
    \/ setup_settings_panel
    \/ setup_ui_elements
    \/ AppRun
    \/ RunStart
    \/ Quit
    \/ KeyboardInterrupt
    \/ command_run_except
    \/ command_run_return
    \/ cli_run_except
    \/ main_exit

SpecCli == InitCli /\ [][NextCli]_vars

----------------------------------------------------------------------------
(* Properties *)

LengthColumnAgrees ==
    \A i \in 1..Len(vocabulary_df) :
        vocabulary_df[i].length = Len(vocabulary_df[i].Word)

LettersAndLengthOk(word, letters, lo, hi) ==
    /\ CharSet(LowerStr(word)) \subseteq letters
    /\ lo <= Len(word)
    /\ Len(word) <= hi

CleanStore == vocabulary_df = <<Row(asas), Row(pasa), Row(pasas), Row(perro)>>

\* C1: for a store whose length column is the length of its words,
\* get_filtered_df returns exactly the rows whose word
\* validate_word_matches_filters accepts.
C1_FilterAgreesWithValidate ==
    (pc = "check" /\ LengthColumnAgrees) =>
        \A i \in 1..Len(vocabulary_df) :
            (vocabulary_df[i].Word \in CharSet(drawn_from))
            <=> validate_word_matches_filters(vocabulary_df[i].Word, toggle_states,
                                              slider_min_value, slider_max_value)

\* C2: when the filtered subset is empty, get_random_word returns None and
\* so does get_display_word; no word of the unfiltered store is drawn.
C2_EmptySubsetGivesNone ==
    /\ (pc = "check" /\ drawn_from = << >>) => candidate_word = None
    /\ (pc = "return" /\ drawn_from = << >>) => result = None

C2_Witness ==
    /\ pc = "return"
    /\ drawn_from = << >>
    /\ ActiveLetters(toggle_states) # {}
    /\ slider_min_value <= slider_max_value
    /\ result = None

\* C3: in the run loop, whenever display_word has rendered a word, that word
\* passes validate_word_matches_filters under the filter state in effect.
C3_DisplayedWordMatchesFilter ==
    displayed.word # None =>
        validate_word_matches_filters(displayed.word, toggle_states,
                                      slider_min_value, slider_max_value)

\* C4: a word get_display_word returns has all its letters in the allowed
\* set and a length between the slider values, as read during the call.
C4_ReturnedWordMatchesFilter ==
    (pc = "return" /\ result # None) =>
        LettersAndLengthOk(result, ActiveLetters(toggle_states),
                           slider_min_value, slider_max_value)

C4_Witness ==
    /\ pc = "return"
    /\ result # None
    /\ draws >= 2

\* C5: with no letter toggled on, get_filtered_df returns the empty subset,
\* whatever the store and the length bounds.
C5_NoLettersGivesEmptySubset ==
    (pc = "check" /\ ActiveLetters(toggle_states) = {}) => drawn_from = << >>

C5_Witness ==
    /\ pc = "check"
    /\ ActiveLetters(toggle_states) = {}
    /\ slider_min_value <= slider_max_value
    /\ drawn_from = << >>

\* C6: with slider_min_value > slider_max_value, get_filtered_df returns the
\* empty subset and validate_word_matches_filters rejects every word.
C6_MinAboveMaxGivesNothing ==
    (pc = "check" /\ slider_min_value > slider_max_value) =>
        /\ drawn_from = << >>
        /\ \A i \in 1..Len(vocabulary_df) :
              ~validate_word_matches_filters(vocabulary_df[i].Word, toggle_states,
                                             slider_min_value, slider_max_value)

C6_Witness ==
    /\ pc = "check"
    /\ slider_min_value > slider_max_value
    /\ ActiveLetters(toggle_states) # {}
    /\ drawn_from = << >>

\* C7: when the filtered subset is empty, get_display_word returns None
\* having computed the filter once, without a further draw.
C7_EmptySubsetReturnsAtOnce ==
    (pc = "return" /\ drawn_from = << >>) =>
        (result = None /\ filter_calls = 1 /\ draws = 1)

\* C8: get_display_word ends with a result; it draws again after a rejected
\* candidate at most 10 times, and returns None when every draw was rejected.
C8_BoundedRetries ==
    /\ [](draws - 1 <= 10)
    /\ []((pc = "return" /\ result # None) => result = candidate_word)
    /\ []((pc = "return" /\ result = None) => draws - 1 = 10)
    /\ <>(pc = "events")

C8_Witness ==
    /\ pc = "return"
    /\ draws - 1 = 10
    /\ candidate_word # None
    /\ result = None

\* C9: when another actor changes the filter state between the draw and the
\* check, get_display_word returns a candidate only if it passed the
\* validation against the filter state that validation read, and draws
\* again only after a candidate that did not.
C9_ReturnsOnlyValidated ==
    /\ (pc = "return" /\ result # None) =>
          /\ result = candidate_word
          /\ checked.letters # {}
          /\ LettersAndLengthOk(result, checked.letters, checked.min, checked.max)
    /\ (pc = "draw" /\ draws >= 1 /\ candidate_word # None) =>
          ~LettersAndLengthOk(candidate_word, checked.letters, checked.min,
                              checked.max)

C9_Witness ==
    /\ CleanStore
    /\ pc = "draw"
    /\ draws >= 1
    /\ candidate_word # None
    /\ interference >= 1

InDrawnToggleBox(pos, i) ==
    collidepoint(drawn_toggle_rect(i),
                 <<pos[1] - settings_panel_rect(window_size).x,
                   pos[2] - settings_panel_rect(window_size).y>>)

\* C10: a click on the drawn toggle box of a letter flips that letter and
\* no other, leaves both sliders, the case mode and the hyphenation flag as
\* they were, also when it switches the last letter off, and a second click
\* at the same place restores the letters.
C10_ToggleFlipsOneLetter ==
    [][\A pos \in PanelPoints : \A i \in 0..(Len(alphabet) - 1) :
          (pc = "events" /\ settings_visible /\ InDrawnToggleBox(pos, i)
              /\ MouseButtonDown(pos))
          => /\ toggle_states' =
                   [toggle_states EXCEPT ![alphabet[i + 1]] = ~toggle_states[alphabet[i + 1]]]
             /\ UNCHANGED <<slider_min_value, slider_max_value, selected_case,
                            hyphenate_enabled>>
             /\ handle_settings_panel_click(Settings', pos, window_size').toggle_states
                   = toggle_states]_vars

C10_Witness ==
    /\ pc = "events"
    /\ settings_visible
    /\ ActiveLetters(toggle_states) = {}

\* C11: after any sequence of slider drags, at any mouse position, both
\* slider values are integers from 4 to 8.
C11_SlidersWithinRange ==
    /\ slider_min_value \in 4..8
    /\ slider_max_value \in 4..8

C11_Witness ==
    /\ pc = "events"
    /\ dragging_max
    /\ slider_min_value = 6
    /\ slider_max_value = 4

\* C12: a step that changes the minimum leaves the maximum as it was and a
\* step that changes the maximum leaves the minimum, also when the new
\* minimum is above the maximum; and outside a drag neither value changes,
\* so that a state with min > max stays as it is.
C12_SlidersIndependent ==
    [][/\ slider_min_value' # slider_min_value => slider_max_value' = slider_max_value
       /\ slider_max_value' # slider_max_value => slider_min_value' = slider_min_value
       /\ (~settings_visible \/ ~(dragging_min \/ dragging_max))
             => UNCHANGED <<slider_min_value, slider_max_value>>]_vars

C12_Witness ==
    /\ pc = "events"
    /\ slider_min_value > slider_max_value
    /\ ~dragging_min
    /\ ~dragging_max
    /\ ~settings_visible

\* C13: when there is no word to show (the match result is None),
\* display_word renders the placeholder "no words" as it is, in every case
\* mode and with hyphenation on or off.
C13_PlaceholderForNone ==
    (pc = "events" /\ current_word = None) =>
        /\ displayed.word = None
        /\ displayed.text = NoWords
        /\ displayed.hyphenation = "none"

C13_Witness ==
    /\ pc = "events"
    /\ current_word = None
    /\ selected_case = "UPPER"
    /\ hyphenate_enabled
    /\ displayed.text = NoWords

\* C14: when the syllabifier fails on the word, display_word shows the word
\* unhyphenated in the selected case, the event loop goes on, and a redraw
\* that meets the failure leaves the current word, the letters, the sliders
\* and the store as they were.
C14_HyphenationFallback ==
    /\ [](displayed.hyphenation = "failed" =>
            /\ hyphenate_enabled
            /\ displayed.word = current_word
            /\ displayed.text = ApplyCase(current_word, selected_case)
            /\ pc \in {"events", "quit"})
    /\ [][(HoverRedraw /\ displayed'.hyphenation = "failed") =>
            UNCHANGED <<current_word, vocabulary_df, toggle_states,
                        slider_min_value, slider_max_value,
                        hyphenate_enabled, selected_case, pc>>]_vars

C14_Witness ==
    /\ pc = "events"
    /\ current_word # None
    /\ selected_case = "Title"
    /\ displayed.hyphenation = "failed"
    /\ displayed.text = TitleStr(current_word)

C16_StoreNeverMutated ==
    [][vocabulary_df' = vocabulary_df]_vars

C16_Witness ==
    /\ pc = "quit"
    /\ current_word # None
    /\ ~toggle_states["a"]
    /\ slider_min_value = 8
    /\ hyphenate_enabled

\* C17: FlashCardApp called with None or with an empty frame raises
\* ValueError with nothing of the app set up (no store held, no window), and
\* no app ever holds an empty store.
C17_EmptyVocabularyRejected ==
    /\ vocabulary_df # EmptyFrame
    /\ raised = "ValueError" => (vocabulary_df = None /\ window_size = None)
    /\ (argv = None /\ pc # "init"
          /\ (processor_vocabulary_df = None \/ processor_vocabulary_df = EmptyFrame))
        => /\ raised = "ValueError"
           /\ pc = "propagated"
           /\ AppAbsent

C17_Witness ==
    /\ pc = "propagated"
    /\ raised = "ValueError"
    /\ processor_vocabulary_df = EmptyFrame
    /\ AppAbsent

\* C18: a constructed app starts with minimum length 4, maximum length 8,
\* the letters a, e, i, o, u, s, c, l allowed out of an alphabet of 26, case
\* mode lower, hyphenation off and the settings panel hidden.
C18_InitialSessionState ==
    pc \in {"constructed", "start"} =>
        /\ slider_min_value = 4
        /\ slider_max_value = 8
        /\ DOMAIN toggle_states = Letters
        /\ Cardinality(DOMAIN toggle_states) = 26
        /\ ActiveLetters(toggle_states) = {"a", "e", "i", "o", "u", "s", "c", "l"}
        /\ selected_case = "lower"
        /\ hyphenate_enabled = FALSE
        /\ settings_visible = FALSE

C18_Witness ==
    /\ pc = "constructed"
    /\ vocabulary_df = <<Row(asas), Row(pasa), Row(pasas), Row(perro)>>
    /\ ActiveLetters(toggle_states) = {"a", "e", "i", "o", "u", "s", "c", "l"}
    /\ slider_min_value = 4
    /\ slider_max_value = 8

\* C19: the process never ends on an exception that left FlashReadCLI.run;
\* it ends with status 0 when run returned True and 1 otherwise; run returns
\* False for a missing command and for an unknown one.
C19_RunYieldsBoolean ==
    /\ pc = "exited" => raised = "none"
    /\ (pc = "exited" /\ raised = "none") => exit_code = (IF success THEN 0 ELSE 1)
    /\ (pc = "run_returned" /\ argv = << >>) => success = FALSE
    /\ (pc = "exited" /\ argv = <<"bogus">>) =>
          (raised = "none" /\ success = FALSE /\ exit_code = 1)

\* C20: under "run", an app exists only with the vocabulary file read or
\* written and the frame it was handed non-empty; with an unreadable file,
\* or with no vocabulary file at the end, no app was constructed and the
\* command returned False.
C20_LaunchOnlyWithVocabulary ==
    argv = <<"run">> =>
        /\ vocabulary_df # None =>
              /\ vocabulary_file \in {"readable", "written"}
              /\ processor_vocabulary_df # EmptyFrame
              /\ vocabulary_df = processor_vocabulary_df
        /\ vocabulary_file = "unreadable" =>
              /\ AppAbsent
              /\ pc \in {"run_returned", "exited"} => success = FALSE
        /\ (vocabulary_file = "absent" /\ pc \in {"run_returned", "exited"}) =>
              /\ AppAbsent
              /\ success = FALSE

C20_Witness ==
    /\ argv = <<"run">>
    /\ vocabulary_file = "written"
    /\ pc = "events"
    /\ vocabulary_df = processor_vocabulary_df
    /\ current_word # None

\* C21: a load_vocabulary that cannot read the file returns False and leaves
\* vocabulary_df as it was (empty on a fresh processor); one that reads the
\* file returns True and the store is what the file holds.
C21_LoadAllOrNothing ==
    /\ [][LoadVocabulary =>
            /\ returned'.method = "load_vocabulary"
            /\ IF vocabulary_file \in {"readable", "written"}
               THEN /\ returned'.value = TRUE
                    /\ processor_vocabulary_df' = CsvRead(vocabulary_csv)
               ELSE /\ returned'.value = FALSE
                    /\ processor_vocabulary_df' = processor_vocabulary_df
                    /\ returned.method = "none" => processor_vocabulary_df' = EmptyFrame
            /\ UNCHANGED <<vocabulary_file, vocabulary_csv, word_frequencies>>]_vars
    /\ [](returned.method = "load_vocabulary" =>
             (returned.value = FALSE <=> vocabulary_file \in {"absent", "unreadable"}))

C21_Witness ==
    /\ returned.method = "load_vocabulary"
    /\ returned.value = FALSE
    /\ vocabulary_file = "unreadable"
    /\ Len(processor_vocabulary_df) = 2

\* C22: "generate" without --force, with both data files there and loading,
\* returns True without processing the corpus and without writing either
\* file; the corpus is processed only with --force, with a file missing, or
\* with a load that failed.
C22_GenerateKeepsExistingData ==
    [][command_generate =>
          /\ (/\ argv = <<"generate">>
              /\ FileReadable(word_frequencies_file)
              /\ FileReadable(vocabulary_file))
                => /\ pc' = "run_returned"
                   /\ success' = TRUE
                   /\ ~corpus_processed'
                   /\ UNCHANGED <<word_frequencies_file, word_frequencies_csv,
                                  vocabulary_file, vocabulary_csv>>
          /\ corpus_processed' =>
                \/ argv = <<"generate", "--force">>
                \/ ~FileExists(word_frequencies_file)
                \/ ~FileExists(vocabulary_file)
                \/ ~FileReadable(word_frequencies_file)
                \/ ~FileReadable(vocabulary_file)]_vars

C24_HandedStoreLengthAgrees ==
    (argv = <<"run">> /\ pc = "init") =>
        \A i \in 1..Len(processor_vocabulary_df) :
            processor_vocabulary_df[i].length = Len(processor_vocabulary_df[i].Word)

\* C25: a word get_random_word returns is the Word of a row of the filtered
\* subset of that moment, and so the Word of a row of the store.
C25_RandomWordFromStore ==
    (pc = "check" /\ candidate_word # None) =>
        /\ \E i \in 1..Len(get_filtered_df(vocabulary_df, toggle_states,
                                           slider_min_value, slider_max_value)) :
              get_filtered_df(vocabulary_df, toggle_states,
                              slider_min_value, slider_max_value)[i].Word = candidate_word
        /\ \E i \in 1..Len(vocabulary_df) : vocabulary_df[i].Word = candidate_word

C25_Witness ==
    /\ pc = "check"
    /\ candidate_word = <<"A", "s", "a", "s">>
    /\ draws = 1

\* C26: the visibility of the settings panel changes only on a mouse-down
\* on the cogwheel, which flips it, or, with the panel visible, on a
\* mouse-down outside the panel or on its close button, which hides it;
\* handle_cogwheel_click returns True on the cogwheel and otherwise False
\* with nothing changed; handle_settings_panel_click returns True when it
\* hides the panel and, with the panel hidden, False with nothing changed.
C26_VisibilityChanges ==
    /\ [][settings_visible' # settings_visible =>
            \E pos \in Points :
               /\ MouseButtonDown(pos)
               /\ \/ /\ collidepoint(cogwheel_rect(window_size), pos)
                     /\ settings_visible' = ~settings_visible
                  \/ /\ settings_visible
                     /\ ~settings_visible'
                     /\ \/ ~collidepoint(settings_panel_rect(window_size), pos)
                        \/ collidepoint(close_rect,
                              <<pos[1] - settings_panel_rect(window_size).x,
                                pos[2] - settings_panel_rect(window_size).y>>)]_vars
    /\ [](pc = "events" =>
            \A pos \in Points :
               LET cog == handle_cogwheel_click(Settings, pos, window_size)
                   panel == handle_settings_panel_click(Settings, pos, window_size)
                   outside == ~collidepoint(settings_panel_rect(window_size), pos)
                   on_close == collidepoint(close_rect,
                                   <<pos[1] - settings_panel_rect(window_size).x,
                                     pos[2] - settings_panel_rect(window_size).y>>)
               IN /\ IF collidepoint(cogwheel_rect(window_size), pos)
                     THEN cog = [Settings EXCEPT !.settings_visible = ~settings_visible,
                                                 !.handled = TRUE]
                     ELSE cog = Settings /\ ~cog.handled
                  /\ ~settings_visible => (panel = Settings /\ ~panel.handled)
                  /\ (settings_visible /\ (outside \/ on_close)) =>
                        panel = [Settings EXCEPT !.settings_visible = FALSE,
                                                 !.handled = TRUE])

C26_Witness ==
    /\ pc = "events"
    /\ ~settings_visible
    /\ ~toggle_states["a"]
    /\ selected_case = "UPPER"

\* C27: in the run loop current_word changes only on a mouse-down on the
\* word area with the settings panel hidden; a cogwheel click, a letter
\* toggle, a slider drag, a change of case or hyphenation, a font-size
\* click, a resize, a mouse-up and a mouse motion leave it unchanged.
C27_WordChangesOnlyOnWordClick ==
    /\ [][(pc = "events" /\ current_word' # current_word) =>
            /\ ~settings_visible
            /\ ~settings_visible'
            /\ \E pos \in EventPoints :
                  /\ MouseButtonDown(pos)
                  /\ ~collidepoint(cogwheel_rect(window_size), pos)
                  /\ collidepoint(word_rect(IF current_word # None THEN current_word
                                            ELSE NoWords, window_size, font_size), pos)]_vars
    /\ [][(pc = "events" /\ (\/ settingsVars' # settingsVars
                             \/ sliderVars' # sliderVars
                             \/ dragVars' # dragVars
                             \/ window_size' # window_size
                             \/ MouseButtonUp
                             \/ HoverRedraw
                             \/ \E pos \in EventDragPoints : MouseMotion(pos)
                             \/ \E size \in WindowSizes : VideoResize(size)))
             => current_word' = current_word]_vars

C27_Witness ==
    /\ pc = "events"
    /\ current_word = None
    /\ ~settings_visible
    /\ font_size = 180
    /\ selected_case = "UPPER"

\* C28: in the run loop the allowed letters and the two length bounds change
\* only in an event that finds the settings panel visible, a new word is
\* selected only in an event that finds it hidden, and no event does both.
C28_FilterAndSelectionApart ==
    [][pc = "events" =>
          /\ (\/ toggle_states' # toggle_states
              \/ slider_min_value' # slider_min_value
              \/ slider_max_value' # slider_max_value) =>
                 /\ settings_visible
                 /\ current_word' = current_word
          /\ current_word' # current_word =>
                 /\ ~settings_visible
                 /\ UNCHANGED <<toggle_states, slider_min_value, slider_max_value>>]_vars

C28_Witness ==
    /\ pc = "events"
    /\ ~settings_visible
    /\ dragging_min
    /\ slider_min_value = 8
    /\ ~toggle_states["a"]
    /\ current_word = None

\* C29: in the run loop dragging_min and dragging_max are never both true,
\* and a mouse-up clears both.
C29_AtMostOneDragFlag ==
    /\ [](pc = "events" => ~(dragging_min /\ dragging_max))
    /\ [][MouseButtonUp => (~dragging_min' /\ ~dragging_max')]_vars

\* C30: with a store whose length column agrees with its words and the
\* filter state unchanged during the call, get_display_word returns None
\* only when the filtered subset is empty; when a word of the store passes
\* the filter it returns such a word, at its first attempt.
C30_NoneOnlyForEmptySubset ==
    (/\ pc = "return"
     /\ LengthColumnAgrees
     /\ Len(get_filtered_df(vocabulary_df, toggle_states,
                            slider_min_value, slider_max_value)) > 0)
        => /\ result # None
           /\ draws = 1
           /\ \E i \in 1..Len(get_filtered_df(vocabulary_df, toggle_states,
                                              slider_min_value, slider_max_value)) :
                 get_filtered_df(vocabulary_df, toggle_states,
                                 slider_min_value, slider_max_value)[i].Word = result

====
